---- MODULE Spec2Model ----
(***************************************************************************)
(* A model of the surf browser's navigation core: the event dispatcher     *)
(* (event/event.go), the request pipeline, history and meta-refresh timer  *)
(* (browser/browser.go) and the construction of a browser (surf.go).       *)
(*                                                                         *)
(* Process 0 is the caller of the Browser API.  Process k >= 1 is the      *)
(* goroutine started by handleMetaRefresh for the k-th committed page.     *)
(* A call to httpRequest is a sequence of steps of one process:            *)
(*   "pre" -> "send" -> "xchg" (redirect hops) -> "post" -> done.          *)
(* log[p] records what the call did: <<"Do", e, n>> for an emission of e   *)
(* to n bound handlers, <<"H", e, i>> for the i-th handler invoked,        *)
(* <<"Xchg">> for the request handed to the transport, <<"Commit">> for    *)
(* the state and history update.                                           *)
(* The caller is one thread: it calls SetAttribute and OnFunc between its  *)
(* navigation calls, which are synchronous.                                *)
(***************************************************************************)
EXTENDS Integers, Sequences, FiniteSets, TLC

\* ---------------------------------------------------------------- bounds
\* navigation calls that reach buildRequest/httpRequest
MaxCalls == 2
\* handlers bound by the owner, over all events
MaxHandlers == 2

\* redirects the server answers with in one exchange
MaxHops == 2

\* calls of Recorder.Replay
MaxReplays == 2

\* navigation calls in a session of SessionSpec
MaxNavs == 3

\* ------------------------------------------------------------- constants
Caller == 0
\* every commit may start a goroutine: a counted call commits at most once,
\* and a replay commits at most once per request recorded before it
MaxCommits == MaxCalls * (2 ^ MaxReplays)
Goroutines == 1..MaxCommits
Procs == {Caller} \cup Goroutines

Events == {"PreRequest", "PostRequest", "Click"}
Attributes == {"SendReferer", "MetaRefreshHandling", "FollowRedirects"}
\* the attributes the owner changes; the others keep NewBrowser's defaults
Toggled == {"FollowRedirects"}
HeaderNames == {"User-Agent", "Referer", "Content-Type"}

\* The URLs the caller passes to Open and to Post; BadURL is one that
\* url.Parse rejects.
URLs == {"a", "b"}
PostURLs == {"b"}
BadURL == "%zz"
NoRef == ""

\* The handlers the owner binds return an error; the recorder, which
\* NewBrowser binds to PostRequest, is the handler that succeeds ("ok").
HandlerKinds == {"fail"}

\* Return values: each is a tuple so that values of different shapes compare.
Nil == <<"nil">>
None == <<"none">>
ErrInvalidURL == <<"InvalidURL">>
ErrTransport == <<"Transport">>
ErrParse == <<"Parse">>
\* the Location error names the URL of the n-th redirect, the one refused
ErrLocation(n) == <<"Location", n>>
ErrPageNotLoaded == <<"PageNotLoaded">>
ErrElementNotFound == <<"ElementNotFound">>
ErrAttributeNotFound == <<"AttributeNotFound">>
\* a nil-pointer dereference: the call does not return, it panics
PanicNilDeref == <<"panic", "nil pointer dereference">>
\* the error returned by the i-th handler bound to event e
HandlerError(e, i) == <<"HandlerError", e, i>>

\* nil *http.Request and nil *jar.State
NoReq == [method |-> "", url |-> ""]
NoDom == [refresh |-> "", sel |-> "none", href |-> ""]
NilState == [id |-> 0, req |-> NoReq, dom |-> NoDom]

\* The site: the document the server answers with for a URL.
\*   refresh: content of <meta http-equiv="refresh">, "" when absent
\*   sel:     what the expression given to Click matches
\*   href:    the anchor's href attribute as written, a relative reference
Page(u) ==
    IF u = "a"
    THEN [refresh |-> "2", sel |-> "a", href |-> "./b"]
    ELSE [refresh |-> "2; url=a", sel |-> "a-nohref", href |-> ""]

VARIABLES
    state,        \* bow.state
    history,      \* bow.history
    attributes,   \* bow.attributes
    headers,      \* bow.headers, the map every built request shares
    handlers,     \* bow.Dispatcher.handlers
    refresh,      \* bow.refresh: 0 is nil, k is the k-th timer
    timers,       \* each timer: none, pending, stopped, fired, drained
    pc,           \* each process's position
    req,          \* each process's req argument of httpRequest
    hops,         \* redirects the process's exchange has followed so far
    derr,         \* the value the process's last Dispatcher.Do returned
    ret,          \* the value the process's last call returned
    op,           \* the API call the process runs or ran last
    log,          \* what the process's current or last call did, in order
    callsleft,       \* navigation calls the session may still make
    ncommit,      \* states created by httpRequest so far
    nback,        \* Back() calls that returned true so far
    recorded,     \* the recorder's log: the requests recorded, in order
    replay        \* the Replay in progress or last run: n entries to
                  \* re-issue, i the entry being re-issued, posts the
                  \* requests whose PostRequest it has emitted, runs the
                  \* calls of Replay so far

vars == <<state, history, attributes, headers, handlers, refresh, timers,
          pc, req, hops, derr, ret, op, log, callsleft, ncommit,
          nback, recorded, replay>>

\* ------------------------------------------------------ jar.History (jar)
\* History.Len
HistoryLen(h) == Len(h)

\* History.Push: the state becomes the most recent entry
Push(h, s) == Append(h, s)

\* History.Pop: removes and returns the most recent entry; returns empty,
\* removing nothing, when only one entry remains
Pop(h) ==
    IF Len(h) > 1
    THEN [state |-> h[Len(h)], history |-> SubSeq(h, 1, Len(h) - 1)]
    ELSE [state |-> NilState, history |-> h]

\* jar.NewHistoryState(req, resp, dom)
NewHistoryState(id, r, dom) == [id |-> id, req |-> r, dom |-> dom]

\* ----------------------------------------------------- jar.Recorder (jar)
\* Recorder.HandleEvent: on PostRequest the request is appended to the log.
\* NewBrowser binds the recorder first, so it is handler 1 of PostRequest.
Record(rec, invoked, r) ==
    IF <<"H", "PostRequest", 1>> \in {invoked[i] : i \in 1..Len(invoked)}
    THEN Append(rec, r)
    ELSE rec

\* a loop that looks at the log's length again after every entry
ReplayLoop_live(err, i, n) ==
    IF err # Nil THEN "return" ELSE IF i < Len(recorded) THEN "next" ELSE "end"

\* Recorder.Replay: what the loop over the log does with the value the
\* dispatch of RecordReplay returned for entry i of the n entries the log
\* held when Replay was called
ReplayLoop(err, i, n) ==
    IF err # Nil THEN "return" ELSE IF i < n THEN "next" ELSE "end"

\* --------------------------------------------------------- event package
\* Dispatcher.OnFunc: append to the event's handler list
OnFunc(hm, e, h) == [hm EXCEPT ![e] = Append(@, h)]

\* Dispatcher.On: wraps handler.HandleEvent in a HandlerFunc and appends it
On(hm, e, h) == OnFunc(hm, e, h)

\* what the i-th handler of event e returns
Handle(hs, e, i) == IF hs[i] = "fail" THEN HandlerError(e, i) ELSE Nil

RECURSIVE DoFrom(_, _, _, _)
DoFrom(hs, e, i, invoked) ==
    IF i > Len(hs)
    THEN [invoked |-> invoked, err |-> Nil]
    ELSE LET err == Handle(hs, e, i)
             inv == Append(invoked, <<"H", e, i>>)
         IN  IF err # Nil
             THEN [invoked |-> inv, err |-> err]
             ELSE DoFrom(hs, e, i + 1, inv)

\* a dispatcher that runs every handler and returns the last error
RECURSIVE DoAll(_, _, _, _, _)
DoAll(hs, e, i, invoked, last) ==
    IF i > Len(hs)
    THEN [invoked |-> invoked, err |-> last]
    ELSE LET err == Handle(hs, e, i)
         IN  DoAll(hs, e, i + 1, Append(invoked, <<"H", e, i>>),
                   IF err # Nil THEN err ELSE last)

Do_all(hm, e) == DoAll(hm[e], e, 1, <<>>, Nil)

\* Dispatcher.Do: the handlers of e in order, stopping at the first error
Do(hm, e) == DoFrom(hm[e], e, 1, <<>>)

\* the log of one dispatch: the emission, then each handler invoked
Emitted(hm, e) == <<<<"Do", e, Len(hm[e])>>>> \o Do(hm, e).invoked

\* -------------------------------------------------------------- browser
\* http.Header.Add
Add(h, name, value) == [h EXCEPT ![name] = Append(@, value)]

\* Browser.buildRequest: req.Header is bow.headers itself, so every Add
\* lands in the shared map.  bow.auth is never set by NewBrowser.
buildRequest(h, attrs, method, u, ref) ==
    LET h1 == Add(h, "User-Agent", "ua")
        h2 == IF attrs["SendReferer"] /\ ref # NoRef
              THEN Add(h1, "Referer", ref)
              ELSE h1
    IN  [req |-> [method |-> method, url |-> u], headers |-> h2]

\* Browser.logError returns the error it was given
logError(e) == e

\* a policy decided at the first redirect of an exchange and kept for the
\* rest
shouldRedirect_once(attrs, n) ==
    IF attrs["FollowRedirects"] \/ n > 1 THEN Nil ELSE ErrLocation(n)

\* Browser.shouldRedirect, the client's CheckRedirect, asked about the n-th
\* redirect of an exchange
shouldRedirect(attrs, n) ==
    IF attrs["FollowRedirects"] THEN Nil ELSE ErrLocation(n)

\* time.ParseDuration(attr + "s") succeeds
ParsesAsSeconds(attr) == attr \in {"2"}

\* a handleMetaRefresh that does not look at the attribute
ArmsTimer_always(attrs, dom) ==
    /\ dom.refresh # ""
    /\ ParsesAsSeconds(dom.refresh)

\* Browser.handleMetaRefresh: whether a timer is created for the document
ArmsTimer(attrs, dom) ==
    /\ attrs["MetaRefreshHandling"]
    /\ dom.refresh # ""
    /\ ParsesAsSeconds(dom.refresh)

\* where a process is when it runs no call: the caller is back with the
\* owner, a goroutine has ended
Home(p) == IF p = Caller THEN "idle" ELSE "exit"

\* where a process's httpRequest returns to: the RecordReplay handler when
\* the call was made by it, the API call's caller otherwise
Done(p) ==
    IF p = Caller /\ op[Caller] = "Replay" THEN "replayed" ELSE Home(p)

\* ------------------------------------------------------------------ Init
\* NewBrowser: bow.state is left nil; SetRecorderJar binds the recorder to
\* PostRequest; the three attributes default to true.
InitWith(calls) ==
    /\ state = NilState
    /\ history = <<>>
    /\ attributes = [a \in Attributes |-> TRUE]
    /\ headers = [n \in HeaderNames |-> <<>>]
    /\ handlers = On([e \in Events |-> <<>>], "PostRequest", "ok")
    /\ refresh = 0
    /\ timers = [k \in Goroutines |-> "none"]
    /\ pc = [p \in Procs |-> IF p = Caller THEN "idle" ELSE "none"]
    /\ req = [p \in Procs |-> NoReq]
    /\ hops = [p \in Procs |-> 0]
    /\ derr = [p \in Procs |-> None]
    /\ ret = [p \in Procs |-> None]
    /\ op = [p \in Procs |-> "none"]
    /\ log = [p \in Procs |-> <<>>]
    /\ callsleft = calls
    /\ ncommit = 0
    /\ nback = 0
    /\ recorded = <<>>
    /\ replay = [n |-> 0, i |-> 0, posts |-> <<>>, runs |-> 0]

\* a session of at most MaxCalls navigation calls
Init == InitWith(MaxCalls)

\* ------------------------------------------------------ caller operations
\* a call of process p that returns r at once, having logged l
Returns(p, o, r, l) ==
    /\ pc' = [pc EXCEPT ![p] = Home(p)]
    /\ ret' = [ret EXCEPT ![p] = r]
    /\ op' = [op EXCEPT ![p] = o]
    /\ log' = [log EXCEPT ![p] = l]
    /\ req' = [req EXCEPT ![p] = NoReq]
    /\ derr' = [derr EXCEPT ![p] = None]

\* process p enters httpRequest(r) from API call o, having logged l
Enters(p, o, r, l) ==
    /\ pc' = [pc EXCEPT ![p] = "pre"]
    /\ req' = [req EXCEPT ![p] = r]
    /\ ret' = [ret EXCEPT ![p] = None]
    /\ derr' = [derr EXCEPT ![p] = IF o = "Click"
                                   THEN Do(handlers, "Click").err
                                   ELSE None]
    /\ op' = [op EXCEPT ![p] = o]
    /\ log' = [log EXCEPT ![p] = l]
    /\ callsleft' = callsleft - 1

\* Browser.Open(u): url.Parse, then httpGET(ur, nil)
Open(u) ==
    /\ pc[Caller] = "idle"
    /\ IF u = BadURL
       THEN /\ Returns(Caller, "Open", ErrInvalidURL, <<>>)
            /\ UNCHANGED <<callsleft, headers>>
       ELSE /\ callsleft > 0
            /\ LET b == buildRequest(headers, attributes, "GET", u, NoRef)
               IN  /\ headers' = b.headers
                   /\ Enters(Caller, "Open", b.req, <<>>)
    /\ UNCHANGED <<state, history, attributes, handlers, refresh, timers,
                   ncommit, nback, hops, recorded, replay>>

\* Browser.Post(u, contentType, body): url.Parse, then httpPOST(ur, nil, ..)
Post(u) ==
    /\ pc[Caller] = "idle"
    /\ IF u = BadURL
       THEN /\ Returns(Caller, "Post", ErrInvalidURL, <<>>)
            /\ UNCHANGED <<callsleft, headers>>
       ELSE /\ callsleft > 0
            /\ LET b == buildRequest(headers, attributes, "POST", u, NoRef)
               IN  /\ headers' = Add(b.headers, "Content-Type", "ct")
                   /\ Enters(Caller, "Post", b.req, <<>>)
    /\ UNCHANGED <<state, history, attributes, handlers, refresh, timers,
                   ncommit, nback, hops, recorded, replay>>

\* a link followed as it is written in the document
ResolveUrl_raw(base, u) == u

\* Browser.ResolveUrl: bow.Url().ResolveReference(u).  Every page of the
\* site lies in one directory of one host, so a relative reference
\* resolves to the page of that name and an absolute URL to itself.
ResolveUrl(base, u) == IF u = "./b" THEN "b" ELSE u

\* Browser.Click(expr): Find on the current document, attrToResolvedUrl,
\* doClick(href), httpGET with the current page as referer.  The error
\* doClick returns is dropped.  The log starts with the argument the
\* Click event is emitted with.
Click ==
    /\ pc[Caller] = "idle"
    /\ callsleft > 0
    /\ CASE state = NilState ->
              /\ Returns(Caller, "Click", PanicNilDeref, <<>>)
              /\ UNCHANGED <<callsleft, headers>>
         [] state # NilState /\ state.dom.sel \in {"none", "div"} ->
              /\ Returns(Caller, "Click", ErrElementNotFound, <<>>)
              /\ UNCHANGED <<callsleft, headers>>
         [] state # NilState /\ state.dom.sel = "a-nohref" ->
              /\ Returns(Caller, "Click", ErrAttributeNotFound, <<>>)
              /\ UNCHANGED <<callsleft, headers>>
         [] OTHER ->
              LET href == ResolveUrl(state.req.url, state.dom.href)
                  b == buildRequest(headers, attributes, "GET",
                                    href, state.req.url)
              IN  /\ headers' = b.headers
                  /\ Enters(Caller, "Click", b.req,
                            <<<<"Arg", "Click", href>>>>
                                \o Emitted(handlers, "Click"))
    /\ UNCHANGED <<state, history, attributes, handlers, refresh, timers,
                   ncommit, nback, hops, recorded, replay>>

\* a Reload that fetches the current page's URL again
ReloadRequest_get(s) == [s.req EXCEPT !.method = "GET"]

\* Browser.Reload, line 283: the request handed to httpRequest is the
\* current state's own request
ReloadRequest(s) == s.req

\* Browser.Reload as run by process p: bow.state.Request is read through
\* bow.state, which NewBrowser leaves nil.
ReloadBy(p) ==
    CASE state = NilState ->
           /\ Returns(p, "Reload", PanicNilDeref, <<>>)
           /\ UNCHANGED callsleft
      [] state # NilState /\ state.req = NoReq ->
           /\ Returns(p, "Reload", ErrPageNotLoaded, <<>>)
           /\ UNCHANGED callsleft
      [] OTHER -> Enters(p, "Reload", ReloadRequest(state), <<>>)

Reload ==
    /\ pc[Caller] = "idle"
    /\ callsleft > 0
    /\ ReloadBy(Caller)
    /\ UNCHANGED <<state, history, attributes, headers, handlers, refresh,
                   timers, ncommit, nback, hops, recorded, replay>>

\* a Back whose guard is off by one
BackResult_any(h, s) ==
    IF HistoryLen(h) > 0
    THEN [ok |-> TRUE, state |-> Pop(h).state, history |-> Pop(h).history]
    ELSE [ok |-> FALSE, state |-> s, history |-> h]

\* a Back that makes the previous page current and keeps it in the history
BackResult_keep(h, s) ==
    IF HistoryLen(h) > 1
    THEN [ok |-> TRUE, state |-> Pop(h).state, history |-> h]
    ELSE [ok |-> FALSE, state |-> s, history |-> h]

\* Browser.Back
BackResult(h, s) ==
    IF HistoryLen(h) > 1
    THEN [ok |-> TRUE, state |-> Pop(h).state, history |-> Pop(h).history]
    ELSE [ok |-> FALSE, state |-> s, history |-> h]

Back ==
    /\ pc[Caller] = "idle"
    /\ LET b == BackResult(history, state)
       IN  /\ state' = b.state
           /\ history' = b.history
           /\ nback' = IF b.ok THEN nback + 1 ELSE nback
           /\ Returns(Caller, "Back",
                      IF b.ok THEN <<"true">> ELSE <<"false">>, <<>>)
    /\ UNCHANGED <<attributes, headers, handlers, refresh, timers, callsleft,
                   ncommit, hops, recorded, replay>>

\* Browser.SetAttribute(a, v)
SetAttribute(a, v) ==
    /\ pc[Caller] = "idle"
    /\ attributes[a] # v
    /\ attributes' = [attributes EXCEPT ![a] = v]
    /\ Returns(Caller, "SetAttribute", None, <<>>)
    /\ UNCHANGED <<state, history, headers, handlers, refresh, timers,
                   callsleft, ncommit, nback, hops, recorded, replay>>

\* the handlers the owner has bound (the recorder is bound by NewBrowser)
Bound == Len(handlers["PreRequest"]) + Len(handlers["PostRequest"])
           + Len(handlers["Click"]) - 1

\* bow.OnFunc(e, h) called by the owner
Bind(e, h) ==
    /\ pc[Caller] = "idle"
    /\ Bound < MaxHandlers
    /\ handlers' = OnFunc(handlers, e, h)
    /\ Returns(Caller, "OnFunc", None, <<>>)
    /\ UNCHANGED <<state, history, attributes, headers, refresh, timers,
                   callsleft, ncommit, nback, hops, recorded, replay>>


\* ------------------------------------------------------------ httpRequest
\* what follows doPreRequest: an error ends the call
AfterPreRequest_ignore(err) == "send"

AfterPreRequest(err) == IF err # Nil THEN "return" ELSE "send"

\* httpRequest, lines 640-643: doPreRequest, return its error
PreRequest(p) ==
    /\ pc[p] = "pre"
    /\ LET d == Do(handlers, "PreRequest")
           l == log[p] \o Emitted(handlers, "PreRequest")
       IN  /\ derr' = [derr EXCEPT ![p] = d.err]
           /\ log' = [log EXCEPT ![p] = l]
           /\ IF AfterPreRequest(d.err) = "return"
              THEN /\ pc' = [pc EXCEPT ![p] = Done(p)]
                   /\ ret' = [ret EXCEPT ![p] = logError(d.err)]
                   /\ req' = [req EXCEPT ![p] = NoReq]
              ELSE /\ pc' = [pc EXCEPT ![p] = "send"]
                   /\ UNCHANGED <<ret, req>>
    /\ UNCHANGED <<state, history, attributes, headers, handlers, refresh,
                   timers, op, callsleft, ncommit, nback, hops, recorded, replay>>

\* an httpRequest that leaves the refresh timer running
Stop_never(ts, r) == ts

\* time.Timer.Stop on bow.refresh: a pending timer never fires afterwards
Stop(ts, r) ==
    IF r # 0 /\ ts[r] = "pending" THEN [ts EXCEPT ![r] = "stopped"] ELSE ts

\* httpRequest, lines 645-649: stop the refresh timer, hand the request to
\* http.Client.Do
Send(p) ==
    /\ pc[p] = "send"
    /\ timers' = Stop(timers, refresh)
    /\ pc' = [pc EXCEPT ![p] = "xchg"]
    /\ log' = [log EXCEPT ![p] = Append(@, <<"Xchg">>)]
    /\ UNCHANGED <<state, history, attributes, headers, handlers, refresh,
                   req, derr, ret, op, callsleft, ncommit, nback, hops,
                   recorded, replay>>

\* http.Client.Do meets a redirect: CheckRedirect is bow.shouldRedirect,
\* called before the redirect is followed.  The client returns its error
\* (wrapped in a *url.Error) as the error of Do.
Redirect(p) ==
    /\ pc[p] = "xchg"
    /\ hops[p] < MaxHops
    /\ LET e == shouldRedirect(attributes, hops[p] + 1)
       IN  IF e = Nil
           THEN /\ hops' = [hops EXCEPT ![p] = @ + 1]
                /\ UNCHANGED <<pc, ret, req>>
           ELSE /\ hops' = [hops EXCEPT ![p] = 0]
                /\ pc' = [pc EXCEPT ![p] = Done(p)]
                /\ ret' = [ret EXCEPT ![p] = logError(e)]
                /\ req' = [req EXCEPT ![p] = NoReq]
    /\ UNCHANGED <<state, history, attributes, headers, handlers, refresh,
                   timers, derr, op, log, callsleft, ncommit, nback, recorded,
                   replay>>

\* what follows a failed exchange or a response goquery cannot read
AfterFailure_retry(e) == "send"

AfterFailure(e) == "return"

\* httpRequest, lines 649-658: Do or NewDocumentFromResponse fails
ReceiveError(p, e) ==
    /\ pc[p] = "xchg"
    /\ hops' = [hops EXCEPT ![p] = 0]
    /\ IF AfterFailure(e) = "return"
       THEN /\ pc' = [pc EXCEPT ![p] = Done(p)]
            /\ ret' = [ret EXCEPT ![p] = logError(e)]
            /\ req' = [req EXCEPT ![p] = NoReq]
       ELSE /\ pc' = [pc EXCEPT ![p] = "send"]
            /\ UNCHANGED <<ret, req>>
    /\ UNCHANGED <<state, history, attributes, headers, handlers, refresh,
                   timers, derr, op, log, callsleft, ncommit, nback, recorded,
                   replay>>

\* a commit that forgets the push
Commit_nopush(h, old, new) == [history |-> h, state |-> new]

\* a commit that assigns first and pushes the new state
Commit_pushnew(h, old, new) == [history |-> Push(h, new), state |-> new]

\* httpRequest, lines 659-660: push bow.state, then replace it
Commit(h, old, new) == [history |-> Push(h, old), state |-> new]

\* httpRequest, lines 649-661: the response arrives and parses; commit;
\* handleMetaRefresh creates the timer and starts its goroutine
Receive(p) ==
    /\ pc[p] = "xchg"
    /\ LET id == ncommit + 1
           new == NewHistoryState(id, req[p], Page(req[p].url))
           c == Commit(history, state, new)
           arm == ArmsTimer(attributes, new.dom)
       IN  /\ history' = c.history
           /\ state' = c.state
           /\ ncommit' = id
           /\ refresh' = IF arm THEN id ELSE refresh
           /\ timers' = IF arm THEN [timers EXCEPT ![id] = "pending"]
                        ELSE timers
           /\ pc' = [pc EXCEPT ![p] = "post",
                               ![id] = IF arm THEN "wait" ELSE @]
    /\ hops' = [hops EXCEPT ![p] = 0]
    /\ log' = [log EXCEPT ![p] = Append(@, <<"Commit">>)]
    /\ UNCHANGED <<attributes, headers, handlers, req, derr, ret, op, callsleft,
                   nback, recorded, replay>>

\* a doPostRequest whose error is swallowed
PostResult_nil(err) == Nil

\* httpRequest, lines 663-667: return doPostRequest's error, or nil
PostResult(err) == IF err # Nil THEN logError(err) ELSE Nil

PostRequest(p) ==
    /\ pc[p] = "post"
    /\ LET d == Do(handlers, "PostRequest")
       IN  /\ derr' = [derr EXCEPT ![p] = d.err]
           /\ recorded' = Record(recorded, d.invoked, req[p])
           /\ replay' = IF p = Caller /\ op[Caller] = "Replay"
                        THEN [replay EXCEPT !.posts = Append(@, req[p])]
                        ELSE replay
           /\ log' = [log EXCEPT ![p] = @ \o Emitted(handlers, "PostRequest")]
           /\ ret' = [ret EXCEPT ![p] = PostResult(d.err)]
           /\ pc' = [pc EXCEPT ![p] = Done(p)]
           /\ req' = [req EXCEPT ![p] = NoReq]
    /\ UNCHANGED <<state, history, attributes, headers, handlers, refresh,
                   timers, op, callsleft, ncommit, nback, hops>>

\* ------------------------------------------------------------- replay
\* a handler that re-issues the request of the current page
ReplayRequest_current(args, s) == s.req

\* the RecordReplay handler bound by SetRecorderJar, lines 480-482: the
\* request re-issued is the one the event carries
ReplayRequest(args, s) == args

\* a handler that reports success whatever httpRequest returned
ReplayHandler_swallow(err) == Nil

\* the RecordReplay handler, lines 482-486: what it returns
ReplayHandler(err) == IF err # Nil THEN err ELSE Nil

\* the recorder dispatches RecordReplay for entry i and the handler enters
\* httpRequest with its request
Issue(i) ==
    /\ pc' = [pc EXCEPT ![Caller] = "pre"]
    /\ req' = [req EXCEPT ![Caller] = ReplayRequest(recorded[i], state)]
    /\ ret' = [ret EXCEPT ![Caller] = None]
    /\ derr' = [derr EXCEPT ![Caller] = None]
    /\ op' = [op EXCEPT ![Caller] = "Replay"]
    /\ log' = [log EXCEPT ![Caller] = <<>>]

\* bow.Recorder().Replay() called by the owner: the entries logged so far
\* are re-issued, the first one now
Replay ==
    /\ pc[Caller] = "idle"
    /\ replay.runs < MaxReplays
    /\ IF Len(recorded) = 0
       THEN /\ Returns(Caller, "Replay", Nil, <<>>)
            /\ replay' = [n |-> 0, i |-> 0, posts |-> <<>>,
                          runs |-> replay.runs + 1]
       ELSE /\ Issue(1)
            /\ replay' = [n |-> Len(recorded), i |-> 1, posts |-> <<>>,
                          runs |-> replay.runs + 1]
    /\ UNCHANGED <<state, history, attributes, headers, handlers, refresh,
                   timers, hops, callsleft, ncommit, nback, recorded>>

\* httpRequest has returned to the RecordReplay handler: the handler
\* returns, and Replay goes on to the next entry or returns
Replayed ==
    /\ pc[Caller] = "replayed"
    /\ LET err == ReplayHandler(ret[Caller])
           nxt == ReplayLoop(err, replay.i, replay.n)
       IN  IF nxt = "next"
           THEN /\ Issue(replay.i + 1)
                /\ replay' = [replay EXCEPT !.i = @ + 1]
           ELSE /\ pc' = [pc EXCEPT ![Caller] = "idle"]
                /\ ret' = [ret EXCEPT ![Caller] = err]
                /\ UNCHANGED <<req, derr, op, log, replay>>
    /\ UNCHANGED <<state, history, attributes, headers, handlers, refresh,
                   timers, hops, callsleft, ncommit, nback, recorded>>

\* ------------------------------------------------------- meta refresh
\* the delay of timer k elapses: a value is sent on its channel
Expire(k) ==
    /\ timers[k] = "pending"
    /\ timers' = [timers EXCEPT ![k] = "fired"]
    /\ UNCHANGED <<state, history, attributes, headers, handlers, refresh,
                   pc, req, derr, ret, op, log, callsleft, ncommit, nback, hops,
                   recorded, replay>>

\* The goroutine started for timer k runs <-bow.refresh.C and then
\* bow.Reload().  It reads bow.refresh when it is first scheduled, which may
\* be after a later commit has replaced the timer: the channel it receives
\* from is that of timer k or of any timer created since.
GoReload(k, j) ==
    /\ pc[k] = "wait"
    /\ j >= k
    /\ timers[j] = "fired"
    /\ callsleft > 0
    /\ timers' = [timers EXCEPT ![j] = "drained"]
    /\ ReloadBy(k)
    /\ UNCHANGED <<state, history, attributes, headers, handlers, refresh,
                   ncommit, nback, hops, recorded, replay>>

\* ------------------------------------------------------------------ Next
Next ==
    \/ \E u \in URLs \cup {BadURL} : Open(u)
    \/ \E u \in PostURLs : Post(u)
    \/ Click
    \/ Reload
    \/ Back
    \/ \E a \in Toggled, v \in BOOLEAN : SetAttribute(a, v)
    \/ \E e \in Events, h \in HandlerKinds : Bind(e, h)
    \/ \E p \in Procs : PreRequest(p)
    \/ \E p \in Procs : Send(p)
    \/ \E p \in Procs : Redirect(p)
    \/ \E p \in Procs, e \in {ErrTransport, ErrParse} : ReceiveError(p, e)
    \/ \E p \in Procs : Receive(p)
    \/ \E p \in Procs : PostRequest(p)
    \/ \E k \in Goroutines : Expire(k)
    \/ \E k \in Goroutines, j \in Goroutines : GoReload(k, j)

Spec == Init /\ [][Next]_vars

\* ---------------------------------------------------------- RefreshSpec
\* The behaviours in which the owner also switches MetaRefreshHandling, and
\* in which time passes and goroutines are scheduled: a pending timer that
\* is not stopped expires, and the goroutine started for a timer receives
\* the value the timer sent.
RefreshNext ==
    \/ Next
    \/ \E v \in BOOLEAN : SetAttribute("MetaRefreshHandling", v)

\* (without Replay, the commits are those of the MaxCalls counted calls)
Fairness ==
    \A k \in 1..MaxCalls :
        /\ WF_vars(Expire(k))
        /\ WF_vars(GoReload(k, k))

RefreshSpec == Init /\ [][RefreshNext]_vars /\ Fairness

\* ----------------------------------------------------------- ReplaySpec
\* The behaviours in which the owner opens and posts pages, binds handlers
\* to PreRequest and PostRequest and replays the recorder's log, while
\* exchanges succeed or fail and timers expire.
ReplayNext ==
    \/ \E u \in URLs : Open(u)
    \/ \E u \in PostURLs : Post(u)
    \/ \E e \in {"PreRequest", "PostRequest"}, h \in HandlerKinds : Bind(e, h)
    \/ \E p \in Procs : PreRequest(p)
    \/ \E p \in Procs : Send(p)
    \/ \E p \in Procs, e \in {ErrTransport, ErrParse} : ReceiveError(p, e)
    \/ \E p \in Procs : Receive(p)
    \/ \E p \in Procs : PostRequest(p)
    \/ \E k \in Goroutines : Expire(k)
    \/ \E k \in Goroutines, j \in Goroutines : GoReload(k, j)
    \/ Replay
    \/ Replayed

ReplaySpec == Init /\ [][ReplayNext]_vars

\* A longer session of one owner who opens pages, follows links, goes back,
\* switches the referer off and on and vetoes requests, with a server that
\* answers or fails in transport.
SessionNext ==
    \/ \E u \in URLs : Open(u)
    \/ Click
    \/ Back
    \/ \E v \in BOOLEAN : SetAttribute("SendReferer", v)
    \/ Bind("PreRequest", "fail")
    \/ \E p \in Procs : PreRequest(p)
    \/ \E p \in Procs : Send(p)
    \/ \E p \in Procs : ReceiveError(p, ErrTransport)
    \/ \E p \in Procs : Receive(p)
    \/ \E p \in Procs : PostRequest(p)
    \/ \E k \in Goroutines : Expire(k)
    \/ \E k \in Goroutines, j \in Goroutines : GoReload(k, j)

\* the runtime fires a timer that stays pending and schedules a goroutine
\* that stays runnable
SessionFairness ==
    \A k \in 1..MaxNavs : WF_vars(Expire(k)) /\ WF_vars(GoReload(k, k))

SessionSpec == InitWith(MaxNavs) /\ [][SessionNext]_vars /\ SessionFairness


\* ================================================================ claims
\* the entries of a log
Entries(l) == {l[i] : i \in 1..Len(l)}

\* how many times x occurs in a log
Count(l, x) == Cardinality({i \in 1..Len(l) : l[i] = x})

\* the handlers of event e that return an error, by position
Failing(e) == {i \in 1..Len(handlers[e]) : handlers[e][i] = "fail"}

\* the position at which a dispatch of e ends: the first failing handler,
\* or the last handler when none fails
Last(e) ==
    IF Failing(e) = {}
    THEN Len(handlers[e])
    ELSE CHOOSE i \in Failing(e) : \A j \in Failing(e) : i <= j

\* what a dispatch of e is to record and to return
ExpectedLog(e) ==
    <<<<"Do", e, Len(handlers[e])>>>> \o [i \in 1..Last(e) |-> <<"H", e, i>>]

ExpectedErr(e) ==
    IF Failing(e) = {} THEN Nil ELSE HandlerError(e, Last(e))

\* a step of process p's navigation call other than a successful Receive
Uncommitted(p) ==
    \/ PreRequest(p)
    \/ Send(p)
    \/ Redirect(p)
    \/ \E e \in {ErrTransport, ErrParse} : ReceiveError(p, e)

\* C1: with no Back so far, the history is as long as the number of
\* navigations that succeeded (states committed), and its first entry is the
\* bootstrap state the browser was constructed with.
C1_HistoryLength ==
    /\ nback = 0 => HistoryLen(history) = ncommit
    /\ HistoryLen(history) >= 1 => history[1] = NilState

C1_Witness ==
    /\ nback = 0
    /\ ncommit = 2
    /\ HistoryLen(history) = 2
    /\ pc[Caller] = "idle"

\* C2: the step that commits a navigation appends to the history exactly
\* the state that was current before the step, and the state it creates is
\* a new one that is not in the history.
C2_PushesPrevious ==
    [][\A p \in Procs : Receive(p) =>
          /\ history' = Append(history, state)
          /\ state' # state
          /\ state'.id = ncommit + 1
          /\ \A i \in 1..Len(history') : history'[i] # state']_vars

C2_Witness ==
    /\ ncommit = 2
    /\ HistoryLen(history) = 2
    /\ history[2].id = 1
    /\ state.id = 2

\* C3: Back() on a history of more than one entry returns true, makes the
\* most recently pushed state current, removes exactly that entry, and
\* starts no call: nothing is emitted and nothing is sent.
C3_BackPops ==
    [][(Back /\ HistoryLen(history) > 1) =>
          /\ ret'[Caller] = <<"true">>
          /\ state' = history[Len(history)]
          /\ history' = SubSeq(history, 1, Len(history) - 1)
          /\ pc'[Caller] = "idle"
          /\ log'[Caller] = <<>>
          /\ \A k \in Goroutines : log'[k] = log[k] /\ pc'[k] = pc[k]
          /\ callsleft' = callsleft]_vars

\* open a, open b, Back: a is current again and the history is [bootstrap]
C3_Witness ==
    /\ op[Caller] = "Back"
    /\ ret[Caller] = <<"true">>
    /\ ncommit = 2
    /\ state.id = 1
    /\ state.req.url = "a"
    /\ history = <<NilState>>

\* C4: once a page has loaded the history never holds fewer than one entry,
\* and Back() on a history of at most one entry returns false and leaves
\* the current state and the history as they are.
C4_BackFloor ==
    /\ [](ncommit >= 1 => HistoryLen(history) >= 1)
    /\ [][(Back /\ HistoryLen(history) <= 1) =>
             /\ ret'[Caller] = <<"false">>
             /\ state' = state
             /\ history' = history]_vars

C4_Witness ==
    /\ op[Caller] = "Back"
    /\ ret[Caller] = <<"false">>
    /\ nback >= 1
    /\ HistoryLen(history) = 1
    /\ state # NilState

\* C5: every dispatch (PreRequest, PostRequest, Click) invokes the handlers
\* bound to the event in the order they were bound, up to and including the
\* first one that returns an error, and returns that handler's error; it
\* invokes all of them and returns nil when none fails.
C5_DispatchOrder ==
    [][/\ \A p \in Procs : PreRequest(p) =>
             /\ log'[p] = log[p] \o ExpectedLog("PreRequest")
             /\ derr'[p] = ExpectedErr("PreRequest")
       /\ \A p \in Procs : PostRequest(p) =>
             /\ log'[p] = log[p] \o ExpectedLog("PostRequest")
             /\ derr'[p] = ExpectedErr("PostRequest")
       /\ (Click /\ pc'[Caller] = "pre") =>
             /\ Tail(log'[Caller]) = ExpectedLog("Click")
             /\ derr'[Caller] = ExpectedErr("Click")]_vars

\* two handlers were bound, the first failed and the second was not invoked
C5_Witness ==
    \E p \in Procs :
        /\ <<"Do", "PreRequest", 2>> \in Entries(log[p])
        /\ <<"H", "PreRequest", 1>> \in Entries(log[p])
        /\ <<"H", "PreRequest", 2>> \notin Entries(log[p])
        /\ derr[p] = HandlerError("PreRequest", 1)

\* C6: when a PreRequest handler fails, the call returns that handler's
\* error at once: the request is not handed to the transport, PostRequest is
\* not emitted, and the current state and the history are not changed.
C6_PreRequestVeto ==
    [][\A p \in Procs : (PreRequest(p) /\ Failing("PreRequest") # {}) =>
          /\ pc'[p] = Done(p)
          /\ ret'[p] = HandlerError("PreRequest", Last("PreRequest"))
          /\ <<"Xchg">> \notin Entries(log'[p])
          /\ <<"Commit">> \notin Entries(log'[p])
          /\ \A n \in 0..Len(handlers["PostRequest"]) :
                <<"Do", "PostRequest", n>> \notin Entries(log'[p])
          /\ state' = state
          /\ history' = history]_vars

C6_Witness ==
    \E p \in Procs :
        /\ pc[p] = Done(p)
        /\ ret[p] = HandlerError("PreRequest", 1)
        /\ op[p] \in {"Open", "Post", "Click", "Reload"}
        /\ state # NilState

\* C7: when the exchange fails, or its response cannot be parsed, the call
\* returns that error having handed the request to the transport exactly
\* once; PostRequest is not emitted, and no step of the call has changed the
\* current state or the history.
C7_TransportFailure ==
    [][\A p \in Procs :
          /\ Uncommitted(p) => state' = state /\ history' = history
          /\ \A e \in {ErrTransport, ErrParse} : ReceiveError(p, e) =>
                /\ pc'[p] = Done(p)
                /\ ret'[p] = e
                /\ Count(log'[p], <<"Xchg">>) = 1
                /\ <<"Commit">> \notin Entries(log'[p])
                /\ \A n \in 0..Len(handlers["PostRequest"]) :
                      <<"Do", "PostRequest", n>> \notin Entries(log'[p])]_vars

C7_Witness ==
    \E p \in Procs :
        /\ pc[p] = Done(p)
        /\ ret[p] = ErrTransport
        /\ Count(log[p], <<"Xchg">>) = 1
        /\ state # NilState

\* C8: when a PostRequest handler fails, the call returns that handler's
\* error and the commit stands: the step changes neither the current state
\* nor the history, which this call has already updated.
C8_PostRequestFailure ==
    [][\A p \in Procs : (PostRequest(p) /\ Failing("PostRequest") # {}) =>
          /\ pc'[p] = Done(p)
          /\ ret'[p] = HandlerError("PostRequest", Last("PostRequest"))
          /\ <<"Commit">> \in Entries(log[p])
          /\ state' = state
          /\ history' = history]_vars

C8_Witness ==
    \E p \in Procs :
        /\ pc[p] = Done(p)
        /\ ret[p] = HandlerError("PostRequest", 2)
        /\ <<"Commit">> \in Entries(log[p])
        /\ state.id = ncommit
        /\ nback = 0
        /\ HistoryLen(history) = ncommit

\* C9: at every redirect of an exchange the value FollowRedirects has at
\* that moment decides: when it is false the call returns the redirect
\* error, when it is true the hop is followed; either way the current state
\* and the history are not changed.
C9_RedirectPerHop ==
    [][\A p \in Procs : Redirect(p) =>
          /\ state' = state
          /\ history' = history
          /\ IF attributes["FollowRedirects"]
             THEN pc'[p] = "xchg" /\ ret'[p] = None
             ELSE pc'[p] = Done(p) /\ ret'[p] = ErrLocation(hops[p] + 1)]_vars

\* a call followed its first redirect and was refused the second
C9_Witness ==
    \E p \in Procs :
        /\ pc[p] = Done(p)
        /\ ret[p] = ErrLocation(2)

\* the phases of a call, in order, read from its log: the events emitted
\* and the exchange and commit steps, leaving out the handlers invoked
Phases(l) ==
    LET steps == SelectSeq(l, LAMBDA x : x[1] # "H")
    IN  [i \in 1..Len(steps) |->
            IF steps[i][1] = "Do" THEN steps[i][2] ELSE steps[i][1]]

\* a Reload() called by process p on a loaded page
ReloadCalled(p) ==
    /\ state # NilState
    /\ IF p = Caller THEN Reload ELSE \E j \in Goroutines : GoReload(p, j)

\* C10: a Reload() on a browser on which no navigation has succeeded
\* returns the PageNotLoaded error, having emitted and sent nothing.
C10_ReloadNotLoaded ==
    (op[Caller] = "Reload" /\ pc[Caller] = "idle" /\ ncommit = 0) =>
        /\ ret[Caller] = ErrPageNotLoaded
        /\ log[Caller] = <<>>

\* C11: a Reload() on a loaded page, by the caller or by the timer, hands
\* the current state's own request to the pipeline; when the exchange
\* succeeds the commit pushes the state current at that moment, the history
\* grows by one and the new state carries the reloaded request; and a
\* Reload that reaches its PostRequest dispatch has emitted PreRequest, made
\* one exchange, committed and emitted PostRequest, in that order.
C11_ReloadPipeline ==
    [][\A p \in Procs :
          /\ ReloadCalled(p) =>
                /\ pc'[p] = "pre"
                /\ req'[p] = state.req
                /\ log'[p] = <<>>
          /\ (Receive(p) /\ op[p] = "Reload") =>
                /\ state'.req = req[p]
                /\ HistoryLen(history') = HistoryLen(history) + 1
                /\ history'[Len(history')] = state
          /\ (PostRequest(p) /\ op[p] = "Reload") =>
                Phases(log'[p]) =
                    <<"PreRequest", "Xchg", "Commit", "PostRequest">>]_vars

\* a POST was reloaded: the page reloaded and the page pushed carry the
\* same POST request
C11_Witness ==
    \E p \in Procs :
        /\ op[p] = "Reload"
        /\ pc[p] = Done(p)
        /\ ret[p] = Nil
        /\ state.req = [method |-> "POST", url |-> "b"]
        /\ history[Len(history)].req = state.req
        /\ state.id = 2

\* the timers whose expiry has started a Reload
Drained == {j \in Goroutines : timers[j] = "drained"}

Pending == {k \in Goroutines : timers[k] = "pending"}

\* the processes inside httpRequest
InFlight == {p \in Procs : pc[p] \in {"pre", "send", "xchg", "post"}}

\* C13: in every reachable state at most one meta-refresh timer is pending.
C13_OnePendingTimer == Cardinality(Pending) <= 1

\* C14: the step of a navigation that comes after PreRequest and hands the
\* request to the transport leaves no timer pending, and a timer that was
\* stopped stays stopped: it never expires and no Reload is started from it.
C14_CancelBeforeExchange ==
    /\ [][\A p \in Procs : Send(p) => Pending' = {}]_vars
    /\ [][\A k \in Goroutines :
              timers[k] = "stopped" => timers'[k] = "stopped"]_vars
    /\ [][\A k \in Goroutines, j \in Goroutines :
              GoReload(k, j) => timers[j] = "fired"]_vars

\* C15: in every reachable state at most one navigation is in progress: a
\* Reload started by a timer and a call of the caller are never both inside
\* httpRequest.
C15_SingleFlight == Cardinality(InFlight) <= 1

\* C16: a Click on an anchor with an href emits the Click event with the
\* link's resolved absolute URL, before the PreRequest event of the
\* navigation, and then issues a GET of that URL with the current page's
\* URL as referer.  An error returned by a Click handler is not the result
\* of the call and does not keep the navigation from happening.
C16_Click ==
    /\ [][(Click /\ state # NilState /\ state.dom.sel = "a") =>
              /\ pc'[Caller] = "pre"
              /\ state.dom.href \notin URLs
              /\ log'[Caller][1] = <<"Arg", "Click", "b">>
              /\ Phases(log'[Caller]) = <<"Arg", "Click">>
              /\ req'[Caller] = [method |-> "GET", url |-> "b"]
              /\ headers'["Referer"]
                     = Append(headers["Referer"], state.req.url)]_vars
    /\ [][(PreRequest(Caller) /\ op[Caller] = "Click") =>
              Phases(log'[Caller]) = <<"Arg", "Click", "PreRequest">>]_vars
    /\ [][(Receive(Caller) /\ op[Caller] = "Click") =>
              state'.req = [method |-> "GET", url |-> "b"]]_vars
    /\ [][(PostRequest(Caller) /\ op[Caller] = "Click") =>
              Phases(log'[Caller]) = <<"Arg", "Click", "PreRequest",
                                       "Xchg", "Commit", "PostRequest">>]_vars
    /\ [](\A i \in 1..MaxHandlers :
              op[Caller] = "Click" => ret[Caller] # HandlerError("Click", i))

\* a Click whose handler failed has loaded the link's page and returned nil
C16_Witness ==
    /\ op[Caller] = "Click"
    /\ pc[Caller] = "idle"
    /\ ret[Caller] = Nil
    /\ <<"H", "Click", 1>> \in Entries(log[Caller])
    /\ Failing("Click") = {1}
    /\ state.req = [method |-> "GET", url |-> "b"]
    /\ history[Len(history)].req.url = "a"
    /\ headers["Referer"] = <<"a">>

\* C17: a replay re-issues the recorded requests in recorded order, each
\* through the whole pipeline, so the PostRequest emissions of a replay are,
\* one for one and in order, those of the requests as recorded: the i-th
\* request issued is the i-th entry of the log, and a replay that ends
\* without error has emitted PostRequest for exactly the entries it started
\* with.
C17_ReplayOrder ==
    /\ [][((Replay \/ Replayed) /\ pc'[Caller] = "pre") =>
              /\ replay'.i \in 1..replay'.n
              /\ (Replayed => replay'.i = replay.i + 1)
              /\ (Replay => replay'.i = 1 /\ replay'.n = Len(recorded))
              /\ req'[Caller] = recorded[replay'.i]
              /\ log'[Caller] = <<>>]_vars
    /\ [][(PostRequest(Caller) /\ op[Caller] = "Replay") =>
              /\ Phases(log'[Caller])
                     = <<"PreRequest", "Xchg", "Commit", "PostRequest">>
              /\ replay'.posts = Append(replay.posts, recorded[replay.i])
              /\ Len(replay'.posts) = replay.i]_vars
    /\ [](replay.posts = SubSeq(recorded, 1, Len(replay.posts)))
    /\ []((op[Caller] = "Replay" /\ pc[Caller] = "idle" /\ ret[Caller] = Nil)
              => replay.posts = SubSeq(recorded, 1, replay.n))

\* a log of a GET and a POST has been replayed without error
C17_Witness ==
    /\ op[Caller] = "Replay"
    /\ pc[Caller] = "idle"
    /\ ret[Caller] = Nil
    /\ replay.n = 2
    /\ replay.posts = <<[method |-> "GET", url |-> "a"],
                        [method |-> "POST", url |-> "b"]>>

\* C18: when re-issuing the k-th recorded request fails, the RecordReplay
\* handler returns that error and Replay returns it at once: no further
\* request is issued before Replay is called again, and the state, the
\* history and the log are left as requests 1..k-1 and the failed one made
\* them.
C18_ReplayFailsFast ==
    /\ [][(Replayed /\ ret[Caller] # Nil) =>
              /\ pc'[Caller] = "idle"
              /\ ret'[Caller] = ret[Caller]
              /\ req' = req
              /\ replay' = replay
              /\ state' = state
              /\ history' = history
              /\ recorded' = recorded]_vars
    /\ [][replay'.i # replay.i =>
              \/ Replay
              \/ Replayed /\ ret[Caller] = Nil]_vars
    /\ [](Len(replay.posts) <= replay.i)

\* the second of three entries failed in transport: the first one's page is
\* the current one, the third was not issued
C18_Witness ==
    /\ op[Caller] = "Replay"
    /\ pc[Caller] = "idle"
    /\ ret[Caller] = ErrTransport
    /\ replay.i = 2
    /\ replay.n = 3
    /\ replay.posts = <<recorded[1]>>
    /\ state.req = recorded[1]

\* the states the session holds: the current one and those of the history
Held ==
    ({state} \cup {history[i] : i \in 1..Len(history)}) \ {NilState}

\* the request of a held state with its header set: buildRequest made the
\* request's Header the session's header map itself
RequestOf(s) ==
    [method |-> s.req.method, url |-> s.req.url, header |-> headers]

\* C19: a state that is held, as current or in the history, before and
\* after a step has the same request (method, URL and header set) and the
\* same response after the step as before it.
C19_StateImmutable ==
    [][\A s \in Held :
          s \in Held' => RequestOf(s)' = RequestOf(s)]_vars

\* C20: the steps of a successful navigation come in the order PreRequest
\* emission, exchange, commit and push, PostRequest emission, meta-refresh
\* scheduling: a timer is armed only by a step at which the PostRequest
\* dispatch of the navigation has been made.
C20_ArmAfterPostRequest ==
    [][\A k \in Goroutines :
          (timers[k] = "none" /\ timers'[k] = "pending") =>
              \E p \in Procs :
                  /\ pc[p] # pc'[p]
                  /\ "PostRequest" \in Entries(Phases(log'[p]))]_vars

\* the caller's call has just assembled a request and entered httpRequest
Assembled == pc[Caller] = "idle" /\ pc'[Caller] = "pre"

\* C21: a request carries a Referer header only if SendReferer is true when
\* it is assembled and the navigation has a referer: the request a direct
\* Open assembles carries none, and the request a Click assembles while
\* SendReferer is false carries none, whatever the session did before.
C21_RefererOnlyWhenAsked ==
    [][/\ ((\E u \in URLs : Open(u)) /\ Assembled) =>
              RequestOf(state)'.header["Referer"] = <<>>
       /\ (Click /\ Assembled /\ ~attributes["SendReferer"]) =>
              RequestOf(state)'.header["Referer"] = <<>>]_vars

\* the request of the navigation that armed timer j: of the site's pages
\* only a carries a refresh with a numeric delay, and only Open requests a
ArmedBy(j) == [method |-> "GET", url |-> "a"]

\* C22: when a meta-refresh timer expires, the Reload it starts re-issues
\* the request of the navigation that armed that timer, whatever was done
\* between arming and expiry, a Back() included.
C22_ReloadsArmingRequest ==
    [][\A k \in Goroutines, j \in Goroutines :
          GoReload(k, j) => pc'[k] = "pre" /\ req'[k] = ArmedBy(j)]_vars

\* C23: once a navigation has succeeded the current state is a loaded one,
\* with the request that produced it, whatever calls follow; the bootstrap
\* entry stays at the bottom of the history, appears nowhere else in it, and
\* is never made current by Back().
C23_CurrentLoaded ==
    ncommit >= 1 =>
        /\ state # NilState
        /\ state.req # NoReq
        /\ state.id \in 1..ncommit
        /\ HistoryLen(history) >= 1
        /\ history[1] = NilState
        /\ \A i \in 2..Len(history) :
               history[i] # NilState /\ history[i].req # NoReq

\* two pages were loaded, Back() returned to the first, and a second Back()
\* was refused with only the bootstrap entry left
C23_Witness ==
    /\ op[Caller] = "Back"
    /\ ret[Caller] = <<"false">>
    /\ nback = 1
    /\ ncommit = 2
    /\ state.id = 1
    /\ state.req.url \in URLs
    /\ history = <<NilState>>

\* C24: a replay of a log of n requests issues at most n requests and ends
\* when the n-th has been re-issued, although each replayed request emits
\* PostRequest and is thereby appended to the log: n is fixed when Replay is
\* called, the index of the entry being re-issued grows by one per request
\* and never passes n, and when the replay has ended without error the log
\* holds the n entries replayed and, after them, those recorded meanwhile.
C24_ReplayTerminates ==
    /\ [](replay.i <= replay.n /\ Len(replay.posts) <= replay.n)
    /\ [][Replay => replay'.n = Len(recorded)]_vars
    /\ [][(Replayed /\ pc'[Caller] = "pre") =>
              /\ replay'.i = replay.i + 1
              /\ replay'.n = replay.n]_vars
    /\ [][(PostRequest(Caller) /\ op[Caller] = "Replay") =>
              /\ Len(recorded') = Len(recorded) + 1
              /\ replay'.n = replay.n]_vars
    /\ []((op[Caller] = "Replay" /\ pc[Caller] = "idle" /\ ret[Caller] = Nil)
              => /\ replay.i = replay.n
                 /\ Len(replay.posts) = replay.n
                 /\ Len(recorded) >= 2 * replay.n)

\* the first replay of a log of two requests has ended, and the log now
\* holds four
C24_Witness ==
    /\ op[Caller] = "Replay"
    /\ pc[Caller] = "idle"
    /\ ret[Caller] = Nil
    /\ replay.runs = 1
    /\ replay.n = 2
    /\ replay.i = 2
    /\ Len(recorded) = 4
    /\ SubSeq(recorded, 3, 4) = SubSeq(recorded, 1, 2)

\* process p's navigation is vetoed by a PreRequest handler at this step
Vetoed(p) == PreRequest(p) /\ derr'[p] # Nil

\* C25: a navigation vetoed by a failing PreRequest handler returns before
\* the cancel step and leaves every timer as it was, so a timer that was
\* pending still expires and starts its Reload; a navigation that fails in
\* transport has by then stopped the session's refresh timer, at the step
\* that sent the request, and creates no timer.
C25_VetoKeepsTimer ==
    /\ [][\A p \in Procs : Vetoed(p) =>
              /\ pc'[p] = Done(p)
              /\ ret'[p] = derr'[p]
              /\ timers' = timers
              /\ refresh' = refresh]_vars
    /\ [][\A k \in Goroutines :
              (timers[k] = "pending" /\ timers'[k] # "pending") =>
                  \/ Expire(k) /\ timers'[k] = "fired"
                  \/ \E p \in Procs : Send(p) /\ refresh = k]_vars
    /\ \A k \in 1..MaxNavs :
          (timers[k] = "pending" /\ ret[Caller] = ExpectedErr("PreRequest")
                                 /\ ExpectedErr("PreRequest") # Nil)
              ~> \/ timers[k] \in {"stopped", "drained"}
                 \/ refresh # k
                 \/ callsleft = 0
    /\ [][\A p \in Procs : Send(p) =>
              (refresh # 0 => timers'[refresh] # "pending")]_vars
    /\ [][\A p \in Procs : ReceiveError(p, ErrTransport) =>
              /\ timers' = timers
              /\ refresh' = refresh
              /\ \A k \in Goroutines : k # p => pc'[k] = pc[k]]_vars

\* the owner's Open has just been vetoed and the timer of the current page
\* is still pending, its goroutine waiting
C25_Witness ==
    /\ op[Caller] = "Open"
    /\ pc[Caller] = "idle"
    /\ ret[Caller] = HandlerError("PreRequest", 1)
    /\ callsleft = 1
    /\ ncommit = 1
    /\ state.req.url = "a"
    /\ refresh = 1
    /\ timers[1] = "pending"
    /\ pc[1] = "wait"

====
